---- MODULE Spec2Model ----
(***************************************************************************)
(* Model of launch_patient_manager.py: the port finder, the launcher's     *)
(* main(), the browser-opener daemon thread, the http.server child process *)
(* and the top-level exception handlers.                                   *)
(***************************************************************************)
EXTENDS Integers, Sequences, FiniteSets, TLC

\* ---------------------------------------------------------------- bounds
\* largest k such that a run may start with ports 8000..8000+k-1 occupied
MaxPrefix == 6
\* number of ports (from 8000 up) other processes may bind/release mid-run
NumEnvPorts == 2
\* number of bind/release steps other processes take during a run
MaxEnvSteps == 1
\* number of Ctrl-C deliveries during a run
MaxInterrupts == 2
\* width of the argument window explored for find_free_port(start, max)
FinderSpan == 3

\* ------------------------------------------------------ program constants
DefaultStartPort == 8000
DefaultMaxPort == 8100
Delay == 2
None == -1

EntryFile == "complete-patient-system.html"
HtmlPath == <<"<script_dir>/", EntryFile>>

\* ------------------------------------------------------------- helpers
Digit(d) == <<"0", "1", "2", "3", "4", "5", "6", "7", "8", "9">>[d + 1]

RECURSIVE Str(_)
\* str(port) / f"{port}": the decimal digits of a non-negative integer
Str(n) == IF n < 10 THEN <<Digit(n)>> ELSE Append(Str(n \div 10), Digit(n % 10))

DigitVal(c) == CHOOSE d \in 0..9 : Digit(d) = c

RECURSIVE ParseInt(_)
\* int(s) for a sequence of decimal digits (what http.server does with argv)
ParseInt(s) ==
    IF Len(s) = 0 THEN 0
    ELSE 10 * ParseInt(SubSeq(s, 1, Len(s) - 1)) + DigitVal(s[Len(s)])

\* f"http://localhost:{port}/complete-patient-system.html"
MakeUrl(p) == <<"http://localhost:">> \o Str(p) \o <<"/", EntryFile>>

\* the port digits of a URL built by MakeUrl
UrlPort(u) == ParseInt(SubSeq(u, 2, Len(u) - 2))

Msg(m, a) == [msg |-> m, arg |-> a]

\* --------------------------------------------------------------- state
VARIABLES
    pc,          \* position of the main thread
    status,      \* how the main thread ended: "none", "ok", "uncaught"
    port,        \* main()'s local variable port
    fileExists,  \* whether complete-patient-system.html is in script_dir
    out,         \* messages printed to the console
    inputs,      \* number of input("Press Enter to exit...") calls made
    checks,      \* the precondition checks performed so far, with outcome
    intAt,       \* positions at which a KeyboardInterrupt was delivered
    fpc,         \* position inside find_free_port
    start_port,  \* find_free_port argument
    max_port,    \* find_free_port argument
    fport,       \* find_free_port loop variable
    fresult,     \* find_free_port return value
    probe,       \* ports bound by this process's probe socket
    probed,      \* the probes made: port, and whether another process held it then
    occAtCall,   \* ports in use when find_free_port was called
    occupied,    \* ports bound by other processes
    envSteps,    \* bind/release steps taken by other processes
    bindLog,     \* every port this process or its server child ever bound
    worker,      \* state of the browser-opener thread
    daemon,      \* browser_thread.daemon
    wport,       \* open_browser's port argument
    slept,       \* seconds of time.sleep(delay) elapsed in the worker
    url,         \* open_browser's local variable url
    openCalls,   \* number of webbrowser.open calls
    openResult,  \* outcome of webbrowser.open: "none", "True", "False", "raised"
    server,      \* state of the http.server child process
    sarg,        \* the port argument on the child's command line
    serverBound  \* ports bound by the http.server child

mainVars == <<pc, status, port, out, inputs, checks>>
finderVars == <<fpc, start_port, max_port, fport, fresult, probe, probed, occAtCall>>
envVars == <<occupied, envSteps, fileExists>>
workerVars == <<worker, daemon, wport, slept, url, openCalls, openResult>>
serverVars == <<server, sarg, serverBound>>
vars == <<mainVars, intAt, finderVars, envVars, bindLog, workerVars, serverVars>>

DefaultRange == DefaultStartPort .. (DefaultMaxPort - 1)
EnvPorts == DefaultStartPort .. (DefaultStartPort + NumEnvPorts - 1)
FinderArgs == DefaultStartPort .. (DefaultStartPort + FinderSpan)
FinderOccupiable == DefaultStartPort .. (DefaultStartPort + FinderSpan - 1)
Prefix(k) == DefaultStartPort .. (DefaultStartPort + k - 1)
InitOccupied == { Prefix(k) : k \in 0..MaxPrefix } \cup { DefaultRange }

PortsInUse == occupied \cup probe \cup serverBound
Printed(m) == \E x \in out : x.msg = m

\* state shared by both specifications before anything has run
Fresh ==
    /\ status = "none" /\ port = None /\ out = {} /\ inputs = 0
    /\ checks = << >> /\ intAt = << >>
    /\ fresult = None /\ probe = {} /\ probed = << >>
    /\ envSteps = 0 /\ bindLog = {}
    /\ worker = "unstarted" /\ daemon = FALSE /\ wport = None /\ slept = 0
    /\ url = << >> /\ openCalls = 0 /\ openResult = "none"
    /\ server = "none" /\ sarg = << >> /\ serverBound = {}

\* the process as started by the user: main() has not run yet
Init ==
    /\ Fresh
    /\ pc = "start"
    /\ fpc = "idle" /\ start_port = None /\ max_port = None /\ fport = None
    /\ occAtCall = {}
    /\ occupied \in InitOccupied
    /\ fileExists \in BOOLEAN

\* a direct call find_free_port(start, max) with arbitrary arguments
FinderInit ==
    /\ Fresh
    /\ pc = "harness"
    /\ fpc = "loop"
    /\ start_port \in FinderArgs /\ max_port \in FinderArgs
    /\ fport = start_port
    /\ occupied \in SUBSET FinderOccupiable
    /\ occAtCall = occupied
    /\ fileExists = TRUE

\* ------------------------------------------------------ find_free_port
\* variant: the except branch gives up instead of continuing the loop
FinderBindFailGivesUp ==
    /\ fpc = "loop" /\ fport < max_port
    /\ fport \in PortsInUse
    /\ probed' = Append(probed, [port |-> fport, inUse |-> fport \in occupied])
    /\ fresult' = None
    /\ fpc' = "ret"
    /\ UNCHANGED <<start_port, max_port, fport, probe, occAtCall>>
    /\ UNCHANGED <<mainVars, intAt, envVars, bindLog, workerVars, serverVars>>

\* s.bind(('localhost', port)) raises OSError: the with-block closes the
\* socket and the loop continues with the next port
FinderBindFail ==
    /\ fpc = "loop" /\ fport < max_port
    /\ fport \in PortsInUse
    /\ probed' = Append(probed, [port |-> fport, inUse |-> fport \in occupied])
    /\ fport' = fport + 1
    /\ UNCHANGED <<fpc, start_port, max_port, fresult, probe, occAtCall>>
    /\ UNCHANGED <<mainVars, intAt, envVars, bindLog, workerVars, serverVars>>

\* s.bind(('localhost', port)) succeeds: the probe socket holds the port
FinderBindOk ==
    /\ fpc = "loop" /\ fport < max_port
    /\ fport \notin PortsInUse
    /\ probed' = Append(probed, [port |-> fport, inUse |-> fport \in occupied])
    /\ probe' = probe \cup {fport}
    /\ bindLog' = bindLog \cup {fport}
    /\ fpc' = "bound"
    /\ UNCHANGED <<start_port, max_port, fport, fresult, occAtCall>>
    /\ UNCHANGED <<mainVars, intAt, envVars, workerVars, serverVars>>

\* variant: the probe socket is not closed on return
FinderReturnPortLeaks ==
    /\ fpc = "bound"
    /\ probe' = probe
    /\ fresult' = fport
    /\ fpc' = "ret"
    /\ UNCHANGED <<start_port, max_port, fport, probed, occAtCall>>
    /\ UNCHANGED <<mainVars, intAt, envVars, bindLog, workerVars, serverVars>>

\* return port: leaving the with-block closes the probe socket
FinderReturnPort ==
    /\ fpc = "bound"
    /\ probe' = probe \ {fport}
    /\ fresult' = fport
    /\ fpc' = "ret"
    /\ UNCHANGED <<start_port, max_port, fport, probed, occAtCall>>
    /\ UNCHANGED <<mainVars, intAt, envVars, bindLog, workerVars, serverVars>>

\* the range is exhausted: return None
FinderReturnNone ==
    /\ fpc = "loop" /\ fport >= max_port
    /\ fresult' = None
    /\ fpc' = "ret"
    /\ UNCHANGED <<start_port, max_port, fport, probe, probed, occAtCall>>
    /\ UNCHANGED <<mainVars, intAt, envVars, bindLog, workerVars, serverVars>>

\* KeyboardInterrupt inside find_free_port is not an OSError: it leaves the
\* function, and the with-block closes a socket that is open
FinderUnwind ==
    /\ fpc \in {"loop", "bound"}
    /\ probe' = {}
    /\ fpc' = "raised"
    /\ UNCHANGED <<start_port, max_port, fport, fresult, probed, occAtCall>>

\* find_free_port called directly and interrupted
FinderInterrupt ==
    /\ pc = "harness"
    /\ Len(intAt) < MaxInterrupts
    /\ FinderUnwind
    /\ intAt' = Append(intAt, "find_free_port")
    /\ UNCHANGED <<mainVars, envVars, bindLog, workerVars, serverVars>>

\* ------------------------------------------------------ other processes
\* another process binds a port nobody holds
OtherProcessBinds ==
    /\ envSteps < MaxEnvSteps
    /\ pc # "Terminated"
    /\ \E p \in EnvPorts \ PortsInUse : occupied' = occupied \cup {p}
    /\ envSteps' = envSteps + 1
    /\ UNCHANGED <<mainVars, intAt, finderVars, fileExists, bindLog, workerVars, serverVars>>

\* another process closes a socket it had bound
OtherProcessReleases ==
    /\ envSteps < MaxEnvSteps
    /\ pc # "Terminated"
    /\ \E p \in EnvPorts \cap occupied : occupied' = occupied \ {p}
    /\ envSteps' = envSteps + 1
    /\ UNCHANGED <<mainVars, intAt, finderVars, fileExists, bindLog, workerVars, serverVars>>

FinderNext ==
    \/ FinderBindFail
    \/ FinderBindOk
    \/ FinderReturnPort
    \/ FinderReturnNone
    \/ FinderInterrupt
    \/ OtherProcessBinds
    \/ OtherProcessReleases

SpecFinder == FinderInit /\ [][FinderNext]_vars

\* ---------------------------------------------------------------- main
Check(c, r) == [check |-> c, ok |-> r]

\* the banner printed at the top of main()
PrintBanner ==
    /\ pc = "start"
    /\ out' = out \cup {Msg("Banner", << >>)}
    /\ pc' = "check_python"
    /\ UNCHANGED <<status, port, inputs, checks>>
    /\ UNCHANGED <<intAt, finderVars, envVars, bindLog, workerVars, serverVars>>

\* check_python() returned False: message, then input("Press Enter to exit...")
PythonNotFound ==
    /\ pc = "check_python"
    /\ checks' = Append(checks, Check("CheckRuntime", FALSE))
    /\ out' = out \cup {Msg("PythonNotFound", << >>)}
    /\ inputs' = inputs + 1
    /\ pc' = "ack_python"
    /\ UNCHANGED <<status, port>>
    /\ UNCHANGED <<finderVars, envVars, bindLog, workerVars, serverVars>>

\* the version query exits non-zero, times out or cannot be launched
CheckPythonFail ==
    /\ PythonNotFound
    /\ UNCHANGED intAt

\* the version query exits with status 0
CheckPythonOk ==
    /\ pc = "check_python"
    /\ checks' = Append(checks, Check("CheckRuntime", TRUE))
    /\ pc' = "call_find"
    /\ UNCHANGED <<status, port, out, inputs>>
    /\ UNCHANGED <<intAt, finderVars, envVars, bindLog, workerVars, serverVars>>

\* port = find_free_port() with the default arguments
CallFindFreePort ==
    /\ pc = "call_find"
    /\ start_port' = DefaultStartPort
    /\ max_port' = DefaultMaxPort
    /\ fport' = DefaultStartPort
    /\ fpc' = "loop"
    /\ occAtCall' = PortsInUse
    /\ pc' = "find_free_port"
    /\ UNCHANGED <<status, port, out, inputs, checks>>
    /\ UNCHANGED <<fresult, probe, probed>>
    /\ UNCHANGED <<intAt, envVars, bindLog, workerVars, serverVars>>

\* find_free_port returned a truthy port
FindPortFound ==
    /\ pc = "find_free_port" /\ fpc = "ret"
    /\ fresult # None /\ fresult # 0
    /\ port' = fresult
    /\ checks' = Append(checks, Check("FindPort", TRUE))
    /\ pc' = "check_file"
    /\ UNCHANGED <<status, out, inputs>>
    /\ UNCHANGED <<intAt, finderVars, envVars, bindLog, workerVars, serverVars>>

\* variant: the "return" after the no-free-port message is missing
FindPortNoneFallsThrough ==
    /\ pc = "find_free_port" /\ fpc = "ret"
    /\ (fresult = None \/ fresult = 0)
    /\ port' = fresult
    /\ checks' = Append(checks, Check("FindPort", FALSE))
    /\ out' = out \cup {Msg("NoFreePorts", << >>)}
    /\ inputs' = inputs + 1
    /\ pc' = "check_file"
    /\ UNCHANGED status
    /\ UNCHANGED <<intAt, finderVars, envVars, bindLog, workerVars, serverVars>>

\* "if not port": find_free_port returned None (or 0)
FindPortNone ==
    /\ pc = "find_free_port" /\ fpc = "ret"
    /\ (fresult = None \/ fresult = 0)
    /\ port' = fresult
    /\ checks' = Append(checks, Check("FindPort", FALSE))
    /\ out' = out \cup {Msg("NoFreePorts", << >>)}
    /\ inputs' = inputs + 1
    /\ pc' = "ack_port"
    /\ UNCHANGED status
    /\ UNCHANGED <<intAt, finderVars, envVars, bindLog, workerVars, serverVars>>

\* variant: the "return" after the missing-file message is missing
CheckFileMissingFallsThrough ==
    /\ pc = "check_file"
    /\ ~fileExists
    /\ checks' = Append(checks, Check("CheckTargetFile", FALSE))
    /\ out' = out \cup {Msg("NotFound", << >>), Msg("LookingFor", HtmlPath),
                        Msg("SameFolderHint", << >>)}
    /\ inputs' = inputs + 1
    /\ pc' = "start_thread"
    /\ UNCHANGED <<status, port>>
    /\ UNCHANGED <<intAt, finderVars, envVars, bindLog, workerVars, serverVars>>

\* html_file.exists() is false
CheckFileMissing ==
    /\ pc = "check_file"
    /\ ~fileExists
    /\ checks' = Append(checks, Check("CheckTargetFile", FALSE))
    /\ out' = out \cup {Msg("NotFound", << >>), Msg("LookingFor", HtmlPath),
                        Msg("SameFolderHint", << >>)}
    /\ inputs' = inputs + 1
    /\ pc' = "ack_file"
    /\ UNCHANGED <<status, port>>
    /\ UNCHANGED <<intAt, finderVars, envVars, bindLog, workerVars, serverVars>>

\* html_file.exists() is true: the announcements before the two starts
CheckFileFound ==
    /\ pc = "check_file"
    /\ fileExists
    /\ checks' = Append(checks, Check("CheckTargetFile", TRUE))
    /\ out' = out \cup {Msg("Found", << >>), Msg("ServerWillStartOn", Str(port)),
                        Msg("Opening", <<EntryFile>>), Msg("Starting", << >>),
                        Msg("PressCtrlC", << >>)}
    /\ pc' = "start_thread"
    /\ UNCHANGED <<status, port, inputs>>
    /\ UNCHANGED <<intAt, finderVars, envVars, bindLog, workerVars, serverVars>>

\* variant: the thread is started without being made a daemon
StartBrowserThreadNotDaemon ==
    /\ pc = "start_thread"
    /\ worker' = "sleeping"
    /\ daemon' = FALSE
    /\ wport' = port
    /\ pc' = "start_server"
    /\ UNCHANGED <<status, port, out, inputs, checks>>
    /\ UNCHANGED <<slept, url, openCalls, openResult>>
    /\ UNCHANGED <<intAt, finderVars, envVars, bindLog, serverVars>>

\* browser_thread = Thread(target=open_browser, args=(port,)); daemon; start
StartBrowserThread ==
    /\ pc = "start_thread"
    /\ worker' = "sleeping"
    /\ daemon' = TRUE
    /\ wport' = port
    /\ pc' = "start_server"
    /\ UNCHANGED <<status, port, out, inputs, checks>>
    /\ UNCHANGED <<slept, url, openCalls, openResult>>
    /\ UNCHANGED <<intAt, finderVars, envVars, bindLog, serverVars>>

\* variant: the port is not passed on, the child uses http.server's default
StartServerLaunchDefaultPort ==
    /\ pc = "start_server"
    /\ out' = out \cup {Msg("StartingServerOnPort", Str(port)),
                        Msg("ServingFrom", <<"<script_dir>">>)}
    /\ server' = "launched"
    /\ sarg' = Str(DefaultStartPort)
    /\ pc' = "running"
    /\ UNCHANGED <<status, port, inputs, checks, serverBound>>
    /\ UNCHANGED <<intAt, finderVars, envVars, bindLog, workerVars>>

\* start_server(port): chdir, two prints, the child process is launched
StartServerLaunch ==
    /\ pc = "start_server"
    /\ out' = out \cup {Msg("StartingServerOnPort", Str(port)),
                        Msg("ServingFrom", <<"<script_dir>">>)}
    /\ server' = "launched"
    /\ sarg' = Str(port)
    /\ pc' = "running"
    /\ UNCHANGED <<status, port, inputs, checks, serverBound>>
    /\ UNCHANGED <<intAt, finderVars, envVars, bindLog, workerVars>>

\* start_server(port): chdir or the launch of the child raises an Exception
StartServerLaunchFails ==
    /\ pc = "start_server"
    /\ out' = out \cup {Msg("ErrorStartingServer", << >>)}
    /\ inputs' = inputs + 1
    /\ server' = "launch_failed"
    /\ pc' = "ack_server"
    /\ UNCHANGED <<status, port, checks, sarg, serverBound>>
    /\ UNCHANGED <<intAt, finderVars, envVars, bindLog, workerVars>>

\* subprocess.run(..., check=False) returns whatever the child's exit status,
\* start_server returns, main returns
ServerReturns ==
    /\ pc = "running"
    /\ server \in {"bind_failed", "exited"}
    /\ pc' = "main_done"
    /\ status' = "ok"
    /\ UNCHANGED <<port, out, inputs, checks>>
    /\ UNCHANGED <<intAt, finderVars, envVars, bindLog, workerVars, serverVars>>

AckInMain == {"ack_python", "ack_port", "ack_file", "ack_server"}

\* the user presses Enter at a "Press Enter to exit..." prompt
AckEnter ==
    /\ pc \in AckInMain \cup {"ack_top"}
    /\ pc' = "main_done"
    /\ status' = "ok"
    /\ UNCHANGED <<port, out, inputs, checks>>
    /\ UNCHANGED <<intAt, finderVars, envVars, bindLog, workerVars, serverVars>>

\* input() inside main raises EOFError: the top-level "except Exception"
\* prints it and calls input() again
AckEOF ==
    /\ pc \in AckInMain
    /\ out' = out \cup {Msg("UnexpectedError", <<"EOFError">>)}
    /\ inputs' = inputs + 1
    /\ pc' = "ack_top"
    /\ UNCHANGED <<status, port, checks>>
    /\ UNCHANGED <<intAt, finderVars, envVars, bindLog, workerVars, serverVars>>

\* input() inside the top-level handler raises EOFError: nothing catches it
AckTopEOF ==
    /\ pc = "ack_top"
    /\ pc' = "main_done"
    /\ status' = "uncaught"
    /\ UNCHANGED <<port, out, inputs, checks>>
    /\ UNCHANGED <<intAt, finderVars, envVars, bindLog, workerVars, serverVars>>

\* start_server's "except KeyboardInterrupt" branch
PrintServerStopped ==
    /\ pc = "server_stopped"
    /\ out' = out \cup {Msg("ServerStopped", << >>)}
    /\ pc' = "main_done"
    /\ status' = "ok"
    /\ UNCHANGED <<port, inputs, checks>>
    /\ UNCHANGED <<intAt, finderVars, envVars, bindLog, workerVars, serverVars>>

\* the top-level "except KeyboardInterrupt" branch
PrintGoodbye ==
    /\ pc = "goodbye"
    /\ out' = out \cup {Msg("Goodbye", << >>)}
    /\ pc' = "main_done"
    /\ status' = "ok"
    /\ UNCHANGED <<port, inputs, checks>>
    /\ UNCHANGED <<intAt, finderVars, envVars, bindLog, workerVars, serverVars>>

\* ------------------------------------------------------------- Ctrl-C
CanInterrupt == Len(intAt) < MaxInterrupts

\* inside check_python the bare "except:" swallows the KeyboardInterrupt
InterruptCheckPython ==
    /\ CanInterrupt
    /\ PythonNotFound
    /\ intAt' = Append(intAt, pc)

\* in main outside any try block of its own: propagates to the top level
InterruptMain ==
    /\ CanInterrupt
    /\ pc \in {"start", "call_find", "check_file", "start_thread"} \cup AckInMain
    /\ intAt' = Append(intAt, pc)
    /\ pc' = "goodbye"
    /\ UNCHANGED <<status, port, out, inputs, checks>>
    /\ UNCHANGED <<finderVars, envVars, bindLog, workerVars, serverVars>>

\* inside find_free_port called by main
InterruptFindPort ==
    /\ CanInterrupt
    /\ pc = "find_free_port"
    /\ FinderUnwind
    /\ intAt' = Append(intAt, pc)
    /\ pc' = "goodbye"
    /\ UNCHANGED <<status, port, out, inputs, checks>>
    /\ UNCHANGED <<envVars, bindLog, workerVars, serverVars>>

\* variant: start_server has no "except KeyboardInterrupt" branch
InterruptServerNotCaught ==
    /\ CanInterrupt
    /\ pc \in {"start_server", "running"}
    /\ intAt' = Append(intAt, pc)
    /\ server' = IF server \in {"launched", "serving"} THEN "killed" ELSE server
    /\ serverBound' = {}
    /\ pc' = "goodbye"
    /\ UNCHANGED <<status, port, out, inputs, checks, sarg>>
    /\ UNCHANGED <<finderVars, envVars, bindLog, workerVars>>

\* inside start_server's try block: subprocess.run kills the child and
\* re-raises, start_server's "except KeyboardInterrupt" catches
InterruptServer ==
    /\ CanInterrupt
    /\ pc \in {"start_server", "running"}
    /\ intAt' = Append(intAt, pc)
    /\ server' = IF server \in {"launched", "serving"} THEN "killed" ELSE server
    /\ serverBound' = {}
    /\ pc' = "server_stopped"
    /\ UNCHANGED <<status, port, out, inputs, checks, sarg>>
    /\ UNCHANGED <<finderVars, envVars, bindLog, workerVars>>

\* inside start_server's except branch: propagates to the top level
InterruptHandler ==
    /\ CanInterrupt
    /\ pc = "server_stopped"
    /\ intAt' = Append(intAt, pc)
    /\ pc' = "goodbye"
    /\ UNCHANGED <<status, port, out, inputs, checks>>
    /\ UNCHANGED <<finderVars, envVars, bindLog, workerVars, serverVars>>

\* inside a top-level except branch: nothing catches it
InterruptUncaught ==
    /\ CanInterrupt
    /\ pc \in {"goodbye", "ack_top"}
    /\ intAt' = Append(intAt, pc)
    /\ pc' = "main_done"
    /\ status' = "uncaught"
    /\ UNCHANGED <<port, out, inputs, checks>>
    /\ UNCHANGED <<finderVars, envVars, bindLog, workerVars, serverVars>>

\* ------------------------------------------------------- process exit
\* interpreter shutdown joins the threads that are not daemon threads
CanExit == daemon \/ worker \in {"unstarted", "done"}

\* the process ends; a daemon thread still running ends with it
ProcessExit ==
    /\ pc = "main_done"
    /\ CanExit
    /\ pc' = "Terminated"
    /\ worker' = IF worker \in {"sleeping", "opening"} THEN "killed" ELSE worker
    /\ UNCHANGED <<status, port, out, inputs, checks>>
    /\ UNCHANGED <<daemon, wport, slept, url, openCalls, openResult>>
    /\ UNCHANGED <<intAt, finderVars, envVars, bindLog, serverVars>>

\* ------------------------------------------------- http.server child
\* the child binds the port given on its command line
ServerBinds ==
    /\ server = "launched"
    /\ ParseInt(sarg) \notin PortsInUse
    /\ server' = "serving"
    /\ serverBound' = {ParseInt(sarg)}
    /\ bindLog' = bindLog \cup {ParseInt(sarg)}
    /\ UNCHANGED sarg
    /\ UNCHANGED <<mainVars, intAt, finderVars, envVars, workerVars>>

\* the port is in use: the child exits with a non-zero status
ServerBindFails ==
    /\ server = "launched"
    /\ ParseInt(sarg) \in PortsInUse
    /\ server' = "bind_failed"
    /\ UNCHANGED <<sarg, serverBound>>
    /\ UNCHANGED <<mainVars, intAt, finderVars, envVars, bindLog, workerVars>>

\* the serving child is killed from outside
ServerKilled ==
    /\ server = "serving"
    /\ server' = "exited"
    /\ serverBound' = {}
    /\ UNCHANGED sarg
    /\ UNCHANGED <<mainVars, intAt, finderVars, envVars, bindLog, workerVars>>

\* ------------------------------------------------------- open_browser
\* one second of time.sleep(delay) passes
WorkerSleeps ==
    /\ pc # "Terminated"
    /\ worker = "sleeping" /\ slept < Delay
    /\ slept' = slept + 1
    /\ UNCHANGED <<worker, daemon, wport, url, openCalls, openResult>>
    /\ UNCHANGED <<mainVars, intAt, finderVars, envVars, bindLog, serverVars>>

\* the sleep is over: build the URL and announce it
WorkerWakes ==
    /\ pc # "Terminated"
    /\ worker = "sleeping" /\ slept >= Delay
    /\ url' = MakeUrl(wport)
    /\ out' = out \cup {Msg("OpeningBrowser", MakeUrl(wport))}
    /\ worker' = "opening"
    /\ UNCHANGED <<pc, status, port, inputs, checks>>
    /\ UNCHANGED <<daemon, wport, slept, openCalls, openResult>>
    /\ UNCHANGED <<intAt, finderVars, envVars, bindLog, serverVars>>

\* webbrowser.open(url) returns True: a browser was launched
WorkerOpenTrue ==
    /\ pc # "Terminated"
    /\ worker = "opening"
    /\ openCalls' = openCalls + 1
    /\ openResult' = "True"
    /\ worker' = "done"
    /\ UNCHANGED <<daemon, wport, slept, url>>
    /\ UNCHANGED <<mainVars, intAt, finderVars, envVars, bindLog, serverVars>>

\* webbrowser.open(url) returns False: no browser could be launched; the
\* return value is not looked at, so nothing more is printed
WorkerOpenFalse ==
    /\ pc # "Terminated"
    /\ worker = "opening"
    /\ openCalls' = openCalls + 1
    /\ openResult' = "False"
    /\ worker' = "done"
    /\ UNCHANGED <<daemon, wport, slept, url>>
    /\ UNCHANGED <<mainVars, intAt, finderVars, envVars, bindLog, serverVars>>

\* webbrowser.open(url) raises: the except branch prints the URL
WorkerOpenRaises ==
    /\ pc # "Terminated"
    /\ worker = "opening"
    /\ openCalls' = openCalls + 1
    /\ openResult' = "raised"
    /\ out' = out \cup {Msg("CouldNotOpenBrowser", << >>),
                        Msg("PleaseManuallyOpen", url)}
    /\ worker' = "done"
    /\ UNCHANGED <<pc, status, port, inputs, checks>>
    /\ UNCHANGED <<daemon, wport, slept, url>>
    /\ UNCHANGED <<intAt, finderVars, envVars, bindLog, serverVars>>

Next ==
    \/ PrintBanner
    \/ CheckPythonFail
    \/ CheckPythonOk
    \/ CallFindFreePort
    \/ FinderBindFail
    \/ FinderBindOk
    \/ FinderReturnPort
    \/ FinderReturnNone
    \/ FindPortFound
    \/ FindPortNone
    \/ CheckFileMissing
    \/ CheckFileFound
    \/ StartBrowserThread
    \/ StartServerLaunch
    \/ StartServerLaunchFails
    \/ ServerReturns
    \/ AckEnter
    \/ AckEOF
    \/ AckTopEOF
    \/ PrintServerStopped
    \/ PrintGoodbye
    \/ InterruptCheckPython
    \/ InterruptMain
    \/ InterruptFindPort
    \/ InterruptServer
    \/ InterruptHandler
    \/ InterruptUncaught
    \/ ProcessExit
    \/ ServerBinds
    \/ ServerBindFails
    \/ ServerKilled
    \/ WorkerSleeps
    \/ WorkerWakes
    \/ WorkerOpenTrue
    \/ WorkerOpenFalse
    \/ WorkerOpenRaises
    \/ OtherProcessBinds
    \/ OtherProcessReleases

Spec == Init /\ [][Next]_vars

\* ============================================================== claims
RangeOf(a, b) == a .. (b - 1)
AllProbedOccupied(n) == \A k \in 1..n : probed[k].inUse
ProbesInOrder == \A k \in 1..Len(probed) : probed[k].port = start_port + k - 1
LastProbe == probed[Len(probed)]
LowestFree(S) == CHOOSE p \in S : \A q \in S : p <= q

\* C1: find_free_port(start, max) probes the ports of [start, max) in
\* increasing order and returns the lowest port that was free when probed;
\* it returns None exactly when every port of the range is occupied; the
\* result is None or a port p with start <= p < max.
C1_FindFreePort ==
    fpc = "ret" =>
        /\ fresult = None \/ (start_port <= fresult /\ fresult < max_port)
        /\ ProbesInOrder
        /\ fresult # None =>
              /\ Len(probed) >= 1
              /\ LastProbe.port = fresult
              /\ ~LastProbe.inUse
              /\ AllProbedOccupied(Len(probed) - 1)
        /\ fresult = None =>
              /\ Len(probed) = Cardinality(RangeOf(start_port, max_port))
              /\ AllProbedOccupied(Len(probed))
        /\ envSteps = 0 =>
              /\ fresult = None <=> RangeOf(start_port, max_port) \subseteq occupied
              /\ fresult # None =>
                    fresult = LowestFree(RangeOf(start_port, max_port) \ occupied)

\* a call that skipped an occupied port and returned the next free one
C1_Witness ==
    /\ pc = "harness" /\ fpc = "ret" /\ envSteps = 0
    /\ fresult # None /\ fresult > start_port
    /\ fresult + 1 < max_port

\* C8: after a call of find_free_port no probe socket remains bound: each
\* probe socket is released before the next probe and before the return,
\* so the ports in use after the call are those in use before it, and the
\* returned port is free again.
C8_NoProbeSocketLeft ==
    /\ Cardinality(probe) <= 1
    /\ fpc = "loop" => probe = {}
    /\ fpc \in {"ret", "raised"} =>
          /\ probe = {}
          /\ envSteps = 0 => PortsInUse = occAtCall
          /\ (envSteps = 0 /\ fpc = "ret" /\ fresult # None) => fresult \notin PortsInUse

\* a call that bound a probe socket and returned its port
C8_Witness ==
    /\ pc = "harness" /\ fpc = "ret" /\ envSteps = 0
    /\ fresult # None /\ fresult \in bindLog /\ occAtCall # {}

CheckNames == <<"CheckRuntime", "FindPort", "CheckTargetFile">>
ErrorOf(c) ==
    CASE c = "CheckRuntime" -> "PythonNotFound"
      [] c = "FindPort" -> "NoFreePorts"
      [] c = "CheckTargetFile" -> "NotFound"
ChecksInOrder ==
    /\ Len(checks) <= 3
    /\ \A k \in 1..Len(checks) :
          /\ checks[k].check = CheckNames[k]
          /\ k < Len(checks) => checks[k].ok
AllChecksOk == Len(checks) = 3 /\ \A k \in 1..3 : checks[k].ok
CheckFailed == Len(checks) > 0 /\ ~checks[Len(checks)].ok
Started == worker # "unstarted" \/ server # "none"
AfterFailure == AckInMain \cup {"ack_top", "goodbye", "main_done", "Terminated"}

\* C2: the checks run in the order CheckRuntime, FindPort, CheckTargetFile;
\* the browser opener and then the server are started only after all three
\* succeeded; a failed check prints its error, prompts for acknowledgment
\* and ends the run with no later check and nothing started.
C2_CheckOrder ==
    /\ ChecksInOrder
    /\ Started => AllChecksOk
    /\ server # "none" => worker # "unstarted"
    /\ CheckFailed =>
          /\ ~Started
          /\ Printed(ErrorOf(checks[Len(checks)].check))
          /\ inputs >= 1
          /\ pc \in AfterFailure

\* a run ended by the failure of the second check, acknowledged with Enter
C2_Witness ==
    /\ pc = "Terminated" /\ status = "ok" /\ intAt = << >>
    /\ Len(checks) = 2 /\ CheckFailed
    /\ inputs = 1

\* C3 as stated: an interruption during Running ends the run with the
\* goodbye message printed, without error and without acknowledgment.
C3_Original ==
    (pc = "Terminated" /\ Len(intAt) >= 1 /\ intAt[1] = "running") =>
        /\ Printed("Goodbye")
        /\ status = "ok"
        /\ inputs = 0

\* C3 amended: a single interruption during Running ends the run with
\* start_server's "Server stopped by user" message printed and the
\* top-level "Goodbye!" message not printed, without error and without
\* acknowledgment.
C3_Interrupted ==
    (intAt = <<"running">> /\ pc \in {"main_done", "Terminated"}) =>
        /\ Printed("ServerStopped")
        /\ ~Printed("Goodbye")
        /\ status = "ok"
        /\ inputs = 0

\* a run interrupted once while the server was serving
C3_Witness ==
    /\ pc = "Terminated" /\ intAt = <<"running">>
    /\ server = "killed" /\ bindLog # {}

\* C4 as stated: whenever the server fails to start (launch failure or
\* bind failure with non-zero exit), the error is reported and the program
\* waits for acknowledgment before it exits.
C4_ServerStartErrorReported ==
    (pc = "Terminated" /\ intAt = << >> /\ server \in {"launch_failed", "bind_failed"}) =>
        /\ Printed("ErrorStartingServer")
        /\ inputs >= 1

\* C5 as stated: in a run in which the entry file is absent the process
\* prints the expected path, waits for acknowledgment and exits without
\* having bound any socket.
C5_Original ==
    (pc = "Terminated" /\ ~fileExists /\ intAt = << >> /\ Len(checks) = 3) =>
        /\ Printed("LookingFor")
        /\ inputs >= 1
        /\ bindLog = {}

FileCheckFailed == Len(checks) = 3 /\ ~checks[3].ok

\* C5 amended: when the entry-file check finds the file absent, the process
\* prints the expected path, prompts for acknowledgment and never starts
\* the browser opener or the server, so the server's socket is never
\* bound; the only socket bound in the run is the port finder's probe
\* socket of the returned port, which has been released.
C5_MissingFile ==
    FileCheckFailed =>
        /\ Msg("LookingFor", HtmlPath) \in out
        /\ inputs >= 1
        /\ worker = "unstarted" /\ server = "none" /\ serverBound = {}
        /\ probe = {}
        /\ bindLog = {port}

\* a run ended by the missing entry file
C5_Witness ==
    /\ pc = "Terminated" /\ FileCheckFailed /\ ~fileExists
    /\ bindLog # {}

\* C6 as stated: no execution without interruption ends with an uncaught
\* exception.
C6_NoUncaughtException ==
    intAt = << >> => status # "uncaught"

\* C7: once the main thread has finished, the process can terminate
\* whatever the browser-opener thread is doing; nothing waits for it.
C7_WorkerNeverBlocksExit ==
    pc = "main_done" => ENABLED ProcessExit

\* the process ended while the worker had not finished
C7_Witness ==
    /\ pc = "Terminated" /\ worker = "killed"

\* C9 as stated: at most one attempt to open the browser, and a failed
\* attempt makes the worker print the URL for manual opening and end.
C9_BrowserFailurePrintsUrl ==
    /\ openCalls <= 1
    /\ openResult \in {"False", "raised"} =>
          /\ worker \in {"done", "killed"}
          /\ Msg("PleaseManuallyOpen", url) \in out

UrlOk(u, p) ==
    /\ Len(u) >= 4
    /\ u[1] = "http://localhost:"
    /\ u[Len(u) - 1] = "/" /\ u[Len(u)] = EntryFile
    /\ UrlPort(u) = p

C10_State ==
    /\ server \notin {"none", "launch_failed"} =>
          /\ ParseInt(sarg) = fresult
          /\ port = fresult
          /\ fresult \in DefaultRange
          /\ LastProbe.port = fresult /\ ~LastProbe.inUse
          /\ AllProbedOccupied(Len(probed) - 1) /\ ProbesInOrder
          /\ serverBound \subseteq {fresult}
    /\ worker # "unstarted" => wport = fresult
    /\ url # << >> => UrlOk(url, fresult)
    /\ (url # << >> \/ openCalls > 0) => slept = Delay

\* C10: the server's port and the port of the URL built by the browser
\* opener both equal the port returned by the port finder, the lowest free
\* port of 8000..8099; the port never changes once computed; the browser
\* is opened only after the worker's delay has elapsed.
C10_SamePort ==
    /\ [] C10_State
    /\ [][port # None => port' = port]_vars

\* ports 8000-8005 occupied: the server serves on 8006 and the browser was
\* opened at http://localhost:8006/complete-patient-system.html
C10_Witness ==
    /\ Prefix(6) \subseteq occupied
    /\ server = "serving" /\ serverBound = {8006}
    /\ sarg = <<"8", "0", "0", "6">>
    /\ url = <<"http://localhost:", "8", "0", "0", "6", "/", "complete-patient-system.html">>
    /\ openCalls = 1

====
